---- MODULE Spec2Model ----
(***************************************************************************)
(* Model of the moondream real-time detector: the frame loop of            *)
(* VideoProcessor (core/video_processor.py), the Detector wrapper          *)
(* (core/detector.py), the SharedState prompt store (utils/state.py) and   *)
(* the prompt listener thread (main.py), and the drawing utilities        *)
(* (utils/drawing.py).                                                     *)
(*                                                                         *)
(* Two threads run: the main thread executes VideoProcessor.run, the       *)
(* listener executes prompt_input_thread.  The only shared memory is       *)
(* SharedState._prompt, guarded by SharedState._lock; every step of the    *)
(* model contains at most one access to it.                                *)
(***************************************************************************)
EXTENDS Integers, Sequences, FiniteSets, TLC

VARIABLES
    cfg,             \* settings: [skip |-> FRAME_SKIP, poll |-> FPS_POLL_RATE]
    mode,            \* VideoProcessor.mode: "detect" or "caption"
    pc,              \* position of the main thread in run / _process_frame
    frame_count,     \* VideoProcessor.frame_count
    fps,             \* VideoProcessor.fps as a ratio <<frames, seconds>>
    start_time,      \* VideoProcessor.start_time (seconds on the wall clock)
    latest_objects,  \* VideoProcessor.latest_objects
    current_prompt,  \* local of _process_frame (line 90)
    banner_prompt,   \* value returned by the prompt getter at line 130
    _prompt,         \* SharedState._prompt
    _lock,           \* SharedState._lock: the thread holding it, or "none"
    lpc,             \* position of the listener thread
    new_prompt,      \* local of prompt_input_thread (line 25), while a
                     \* store of it is pending
    framesLeft,      \* frames the capture source will still yield
    exitReason,      \* why main() stopped: "none", "eos", "q", "exception",
                     \* "ioerror"
    output_path,     \* VideoProcessor.output_path is set (--output given)
    video_writer,    \* VideoProcessor.video_writer: "none" or "open"
    cap_opened,      \* cap.isOpened() in __init__: "untried", "yes" or "no"
    \* ---- drawing.draw_bounding_boxes, one call ----
    canvas,          \* frame.shape as [w, h]
    objects,         \* the objects argument
    di,              \* objects the for loop has handled
    used_areas,      \* the local used_areas
    ops,             \* cv2 drawing calls made on the frame, in order
    placement,       \* what the latest _draw_wrapped_text call decided
    \* ---- drawing._overlap, one call ----
    rect1,           \* first argument
    rect2,           \* second argument
    overlap_result,  \* "unset", or the results for (rect1, rect2) and swapped
    \* ---- history variables (observations, never read by the program) ----
    calls,           \* number of _process_frame calls begun
    inferLog,        \* per call, in order: did it invoke detect_objects
    drawn,           \* list handed to draw_bounding_boxes by the latest call
    banners,         \* banners drawn so far by the current call
    callOps,         \* Detector methods invoked by the current call
    modelOut,        \* outcome of the latest model.detect call
    lastOkCount,     \* objects the latest successful model.detect returned
    detectPrompt,    \* prompt passed to the latest detect_objects call
    capLog,          \* caption_image calls of the latest inference
    inferReads,      \* prompt reads made by the current call before detect
    stored,          \* values completely stored by the setter so far
    ioLog            \* calls run() and _cleanup made on the capture, the
                     \* window and the writer, in order

vars == <<cfg, mode, pc, frame_count, fps, start_time, latest_objects,
          current_prompt, banner_prompt, _prompt, _lock, lpc, new_prompt,
          framesLeft, exitReason, output_path, video_writer, cap_opened,
          canvas, objects, di, used_areas, ops, placement, rect1, rect2,
          overlap_result, calls, inferLog, drawn, banners, callOps,
          modelOut, lastOkCount, detectPrompt, capLog, inferReads, stored,
          ioLog>>

(***************************************************************************)
(* Settings                                                                *)
(***************************************************************************)
FRAME_SKIP == 5
FPS_POLL_RATE == 10
FRAME_WIDTH == 1280
FRAME_HEIGHT == 720
DEFAULT_OBJECT_PROMPT == "what are the objects in the scene"

(***************************************************************************)
(* Bounds of the model                                                     *)
(***************************************************************************)
MaxFrames == 11     \* frames the capture source yields before end-of-stream
MaxFramesCfg == 5   \* the same, for the runs under the general configuration
MaxObjects == 2     \* longest list the model's detect returns
MaxTime == 2        \* latest wall-clock reading, in seconds
MaxSkip == 3        \* largest frame-skip interval of the general configuration
MaxPoll == 4        \* largest FPS poll rate of the general configuration
MaxFramesFps == 4   \* the same, for the runs under any FPS poll rate
MaxFramesStart == 2 \* frames the source yields in the runs from start-up
MaxDrawObjects == 3 \* longest list handed to draw_bounding_boxes
MaxCoord == 2       \* largest coordinate of the rectangles given to _overlap
MaxAnyObjects == 2  \* longest list drawn in the runs on any frame size

NoPrompt == "<unset>"
Modes == {"detect", "caption"}

\* What input() can return in prompt_input_thread.
Inputs == {"", "quit", "a dog"}

\* Normalized coordinates are tenths: n stands for the float n/10.
NormBoxes ==
    { [x_min |-> 2, y_min |-> 3, x_max |-> 6, y_max |-> 7],   \* ordinary box
      [x_min |-> 5, y_min |-> 1, x_max |-> 5, y_max |-> 8],   \* zero width
      [x_min |-> 1, y_min |-> 4, x_max |-> 9, y_max |-> 4] }  \* zero height

RECURSIVE SeqsUpTo(_, _)
SeqsUpTo(S, n) ==
    IF n = 0 THEN {<<>>}
    ELSE SeqsUpTo(S, n - 1) \cup [1..n -> S]

\* Outcomes of the external model.detect call.
DetectOutcomes ==
    {[kind |-> "raise", objects |-> <<>>]}
    \cup {[kind |-> "ok", objects |-> s] : s \in SeqsUpTo(NormBoxes, MaxObjects)}

\* Outcomes of the external model.caption call.
CaptionOutcomes ==
    {[kind |-> "raise", caption |-> ""],
     [kind |-> "ok", caption |-> "a red car"]}

(***************************************************************************)
(* Pure helpers                                                            *)
(***************************************************************************)

\* int(norm * dimension) as Python computes it; norm is n/10 as a double.
\* The double product 0.7 * 720 is 503.99999999999994, so it truncates to
\* 503; every other pair of a tenth and a dimension used here truncates to
\* the exact quotient.  int() truncates towards zero, so a negative product
\* is rounded up.
RoundsBelow == {<<7, 720>>}
ToPixel(n, dim) ==
    IF <<n, dim>> \in RoundsBelow THEN (n * dim) \div 10 - 1
    ELSE IF n * dim < 0 THEN 0 - ((0 - n * dim) \div 10)
    ELSE (n * dim) \div 10

\* pil_image.crop((x_min, y_min, x_max, y_max)).size
CropSize(obj) ==
    [w |-> ToPixel(obj.x_max, FRAME_WIDTH) - ToPixel(obj.x_min, FRAME_WIDTH),
     h |-> ToPixel(obj.y_max, FRAME_HEIGHT) - ToPixel(obj.y_min, FRAME_HEIGHT)]

\* cropped_image.size[0] > 0 and cropped_image.size[1] > 0
Captionable(obj) == CropSize(obj).w > 0 /\ CropSize(obj).h > 0

\* Faulty variant of detect_objects: no try/except around model.detect.
detect_objects_uncaught(out) ==
    IF out.kind = "raise" THEN [raised |-> TRUE, objects |-> <<>>]
    ELSE [raised |-> FALSE, objects |-> out.objects]

\* Detector.detect_objects: the model's objects, or [] when the call raises.
\* raised tells whether an exception leaves the method.
detect_objects(out) ==
    IF out.kind = "raise" THEN [raised |-> FALSE, objects |-> <<>>]
    ELSE [raised |-> FALSE, objects |-> out.objects]

\* Detector.caption_image: the model's caption, or "" when the call raises.
caption_image(out) ==
    IF out.kind = "raise" THEN "" ELSE out.caption

\* Faulty variant of InferenceGate: the counter is tested after its increment.
InferenceGateShifted(fc, skip) == (fc + 1) % skip = 0

\* if self.frame_count % settings.FRAME_SKIP == 0
InferenceGate(fc, skip) == fc % skip = 0

\* Whether the loop body calls caption_image for obj.
CaptionInvoked(md, obj) == md = "caption" /\ Captionable(obj)

\* Faulty variant of ObjLabel: the label is read from the shared store again
\* instead of taken from current_prompt.
ObjLabelShared(md, prompt, obj, capOut) ==
    IF CaptionInvoked(md, obj) THEN caption_image(capOut) ELSE _prompt

\* Faulty variant of ObjLabel: the caption is dropped.
ObjLabelNoCaption(md, prompt, obj, capOut) == prompt

\* The label the loop body stores in obj["label"]: current_prompt, replaced
\* by the caption when caption_image is called.
ObjLabel(md, prompt, obj, capOut) ==
    IF CaptionInvoked(md, obj) THEN caption_image(capOut) ELSE prompt

\* processed_objects after the for loop over detected_objects.
ProcessObjects(md, prompt, objs, caps) ==
    [i \in 1..Len(objs) |->
        [x_min |-> objs[i].x_min, y_min |-> objs[i].y_min,
         x_max |-> objs[i].x_max, y_max |-> objs[i].y_max,
         label |-> ObjLabel(md, prompt, objs[i], caps[i])]]

\* The caption_image calls the for loop makes, in order.
CaptionCalls(md, objs, caps) ==
    LET idx == [i \in 1..Len(objs) |-> i]
        hit == SelectSeq(idx, LAMBDA i : CaptionInvoked(md, objs[i]))
    IN  [j \in 1..Len(hit) |-> [idx |-> hit[j], out |-> caps[hit[j]]]]

\* Faulty variant of NextLatest: the assignment sits outside the gated block.
NextLatestCleared(infer, latest, processed) == processed

\* Faulty variant of NextLatest: an empty cycle keeps the previous list.
NextLatestKeepOnEmpty(infer, latest, processed) ==
    IF infer /\ processed # <<>> THEN processed ELSE latest

\* self.latest_objects after the gated block of _process_frame.
NextLatest(infer, latest, processed) ==
    IF infer THEN processed ELSE latest

\* Faulty variant of BoundPrompt: the prompt of an earlier frame is kept.
BoundPromptCached(loaded, previous) ==
    IF previous # NoPrompt THEN previous ELSE loaded

\* current_prompt = self.shared_state.prompt
BoundPrompt(loaded, previous) == loaded

\* Faulty variant of CalculateFps: the counter is not reset.
CalculateFpsNoReset(fc, f, st, now, poll) ==
    IF fc + 1 >= poll
    THEN [frame_count |-> fc + 1,
          fps |-> IF now - st > 0 THEN <<fc + 1, now - st>> ELSE f,
          start_time |-> now]
    ELSE [frame_count |-> fc + 1, fps |-> f, start_time |-> st]

\* VideoProcessor._calculate_fps with time.time() returning now.
CalculateFps(fc, f, st, now, poll) ==
    IF fc + 1 >= poll
    THEN [frame_count |-> 0,
          fps |-> IF now - st > 0 THEN <<fc + 1, now - st>> ELSE f,
          start_time |-> now]
    ELSE [frame_count |-> fc + 1, fps |-> f, start_time |-> st]

\* The values time.time() can return inside _calculate_fps: the clock is read
\* only when the counter reaches the poll rate, and never runs backwards.
ClockReadings(fc, st, poll) ==
    IF fc + 1 >= poll THEN st..MaxTime ELSE {st}

\* One model.caption outcome per position of the detection list.  Only the
\* positions whose caption the loop asks for have an outcome to choose.
NotAsked == [kind |-> "unasked", caption |-> ""]
CaptionChoices(md, objs) ==
    LET asked == {i \in 1..Len(objs) : CaptionInvoked(md, objs[i])}
    IN  {[i \in 1..Len(objs) |-> IF i \in asked THEN f[i] ELSE NotAsked] :
            f \in [asked -> CaptionOutcomes]}

\* Faulty variant of LockFree: the accessors do not take the lock.
LockFreeUnguarded(l) == TRUE

\* with self._lock: the lock can be taken only when no thread holds it.
LockFree(l) == l = "none"

\* The bounding boxes of a labelled list, as model.detect returned them.
BoxesOf(objs) ==
    [i \in 1..Len(objs) |->
        [x_min |-> objs[i].x_min, y_min |-> objs[i].y_min,
         x_max |-> objs[i].x_max, y_max |-> objs[i].y_max]]

(***************************************************************************)
(* Drawing: text measurement and word wrap (utils/drawing.py)              *)
(***************************************************************************)
FONT_THICKNESS == 2
TEXT_LINE_SPACING == 5

\* cv2.getTextSize(text, FONT, FONT_SCALE, FONT_THICKNESS) for the Hershey
\* simplex font at scale 0.7: the height is the same for every text, the
\* width is the sum of the glyph advances plus the thickness.  Every glyph
\* is given the same advance here; the layout code reads only the sizes.
LineHeight == 16
GlyphAdvance == 13

Max(a, b) == IF a >= b THEN a ELSE b
Min(a, b) == IF a <= b THEN a ELSE b

\* A line of text is the sequence of its words, joined by single spaces.
RECURSIVE CharsOf(_)
CharsOf(line) ==
    IF line = <<>> THEN 0
    ELSE Len(Head(line)) + (IF Len(line) > 1 THEN 1 ELSE 0) + CharsOf(Tail(line))

\* The width cv2.getTextSize returns for a line.
TextWidth(line) == FONT_THICKNESS + GlyphAdvance * CharsOf(line)

\* obj.get("label", ""): NoLabel stands for an object without the key.
NoLabel == "<no label key>"
GetLabel(obj) == IF obj.label = NoLabel THEN "" ELSE obj.label

\* text.split(" ") for the texts of the model; a text without a space is
\* one word, consecutive spaces yield empty words.
LongWord == "pneumonoultramicroscopic"
LongLabel == "a pneumonoultramicroscopic scan"
SplitOnSpace(text) ==
    CASE text = "" -> <<"">>
      [] text = "  " -> <<"", "", "">>
      [] text = "a person" -> <<"a", "person">>
      [] text = "a dog" -> <<"a", "dog">>
      [] text = "a red car" -> <<"a", "red", "car">>
      [] text = LongLabel -> <<"a", LongWord, "scan">>
      [] text = DEFAULT_OBJECT_PROMPT ->
             <<"what", "are", "the", "objects", "in", "the", "scene">>
      [] OTHER -> <<text>>

\* Faulty variant of WrapWords: the width of the line before the word is
\* added is tested, not the width after.
RECURSIVE WrapWordsLate(_, _, _, _)
WrapWordsLate(words, current_line, lines, wrap_width) ==
    IF words = <<>>
    THEN IF current_line # <<>> THEN Append(lines, current_line) ELSE lines
    ELSE LET word == Head(words)
             test_line == IF word = "" THEN current_line
                          ELSE Append(current_line, word)
         IN  IF TextWidth(current_line) > wrap_width /\ current_line # <<>>
             THEN WrapWordsLate(Tail(words),
                                IF word = "" THEN <<>> ELSE <<word>>,
                                Append(lines, current_line), wrap_width)
             ELSE WrapWordsLate(Tail(words), test_line, lines, wrap_width)

\* The wrapping loop of _draw_wrapped_text (lines 76-88) over the words
\* still to place.  test_line = f"{current_line} {word}".strip(): an empty
\* word leaves the line as it is.
RECURSIVE WrapWords(_, _, _, _)
WrapWords(words, current_line, lines, wrap_width) ==
    IF words = <<>>
    THEN IF current_line # <<>> THEN Append(lines, current_line) ELSE lines
    ELSE LET word == Head(words)
             test_line == IF word = "" THEN current_line
                          ELSE Append(current_line, word)
         IN  IF TextWidth(test_line) > wrap_width /\ current_line # <<>>
             THEN WrapWords(Tail(words),
                            IF word = "" THEN <<>> ELSE <<word>>,
                            Append(lines, current_line), wrap_width)
             ELSE WrapWords(Tail(words), test_line, lines, wrap_width)

\* wrap_width = max(300, x_max - x_min)
WrapWidth(x_min, x_max) == Max(300, x_max - x_min)

(***************************************************************************)
(* Drawing: label placement (utils/drawing.py)                             *)
(***************************************************************************)

\* Faulty variant of _overlap: rectangles that only touch do not overlap.
_overlap_strict(r1, r2) ==
    ~(r1.x_max <= r2.x_min \/ r2.x_max <= r1.x_min \/
      r1.y_max <= r2.y_min \/ r2.y_max <= r1.y_min)

\* drawing._overlap
_overlap(r1, r2) ==
    ~(r1.x_max < r2.x_min \/ r2.x_max < r1.x_min \/
      r1.y_max < r2.y_min \/ r2.y_max < r1.y_min)

\* Faulty variant of Collides: only the footprint placed last is tested.
CollidesLast(area, used) ==
    used # <<>> /\ _overlap(area, used[Len(used)])

\* for area in used_areas: if _overlap(text_area, area): overlap_found = True
Collides(area, used) ==
    \E i \in 1..Len(used) : _overlap(area, used[i])

\* label_x after the right-edge adjustment (lines 102-105).
FirstLabelX(x_min, line_width, frame_width) ==
    IF x_min + line_width > frame_width THEN frame_width - line_width
    ELSE x_min

\* The "below the box" start (lines 108 and 128).
BelowY(y_min, line_height) == y_min + 10 + line_height

FirstLabelYAlwaysAbove(y_min, total_text_height, line_height) == y_min - 10

\* label_y_start: above the box when there is room, else below (line 108).
FirstLabelY(y_min, total_text_height, line_height) ==
    IF y_min - 10 - total_text_height > 0 THEN y_min - 10
    ELSE BelowY(y_min, line_height)

\* text_area for a label starting at (label_x, label_y_start).
TextArea(label_x, label_y_start, line_width, total_text_height) ==
    [x_min |-> label_x - 15,
     y_min |-> label_y_start - 5,
     x_max |-> label_x + line_width + 15,
     y_max |-> label_y_start + total_text_height + 5]

\* if overlap_found and label_y_start > y_min (line 127)
RetryBelow(overlap_found, label_y_start, y_min) ==
    overlap_found /\ label_y_start > y_min

RightLabelXUnbounded(x_max, line_width, frame_width) == x_max + 10

\* label_x of the move to the right (line 141).
RightLabelX(x_max, line_width, frame_width) ==
    Min(frame_width - line_width - 15, x_max + 10)

\* Lines 97-146 of _draw_wrapped_text for a label of at least one line:
\* the start of the text, the footprint appended to used_areas and the
\* candidates tried on the way.
PlaceLabel(lines, x_min, y_min, x_max, frame_width, used) ==
    LET line_width == TextWidth(lines[1])
        line_height == LineHeight
        total == Len(lines) * (line_height + TEXT_LINE_SPACING)
        x0 == FirstLabelX(x_min, line_width, frame_width)
        y0 == FirstLabelY(y_min, total, line_height)
        area0 == TextArea(x0, y0, line_width, total)
        found0 == Collides(area0, used)
        retry == RetryBelow(found0, y0, y_min)
        y1 == IF retry THEN BelowY(y_min, line_height) ELSE y0
        area1 == TextArea(x0, y1, line_width, total)
        found1 == IF retry THEN Collides(area1, used) ELSE found0
        x2 == IF found1 THEN RightLabelX(x_max, line_width, frame_width)
              ELSE x0
        area2 == TextArea(x2, y1, line_width, total)
    IN  [path |-> IF ~found0 THEN "first"
                  ELSE IF ~found1 THEN "below" ELSE "right",
         label_x |-> x2,
         label_y_start |-> y1,
         line_width |-> line_width,
         total_text_height |-> total,
         first |-> area0,
         first_above |-> y0 < y_min,
         first_collides |-> found0,
         below |-> TextArea(x0, BelowY(y_min, line_height), line_width, total),
         area |-> area2]

\* One cv2 call on the frame: a rectangle by its corners, or a putText of
\* a line at (x1, y1).
DrawOp(kind, x1, y1, x2, y2, line) ==
    [op |-> kind, x1 |-> x1, y1 |-> y1, x2 |-> x2, y2 |-> y2, line |-> line]

\* The filled background rectangle (lines 149-175).
BackgroundOp(lines, at, y_min, frame_width, frame_height) ==
    LET widths == {TextWidth(lines[i]) : i \in 1..Len(lines)}
        max_width == CHOOSE w \in widths : \A v \in widths : v <= w
        below == at.label_y_start > y_min
        total == at.total_text_height
    IN  DrawOp("background",
               Max(0, at.label_x - 15),
               IF below THEN Max(0, y_min + 5)
               ELSE Max(0, y_min - total - 15),
               Min(frame_width, at.label_x + max_width + 15),
               IF below THEN Min(frame_height, y_min + total + 15)
               ELSE Min(frame_height, y_min - 5),
               <<>>)

\* Faulty variant of LineY: no clamp.
LineYUnclamped(i, at, y_min, frame_height) ==
    LET step == LineHeight + TEXT_LINE_SPACING
    IN  IF at.label_y_start > y_min
        THEN y_min + i * step + LineHeight + 10
        ELSE y_min - at.total_text_height + i * step + LineHeight

\* y_pos of line i, counted from 0 (lines 179-185).
LineY(i, at, y_min, frame_height) ==
    LET step == LineHeight + TEXT_LINE_SPACING
        y_pos == IF at.label_y_start > y_min
                 THEN y_min + i * step + LineHeight + 10
                 ELSE y_min - at.total_text_height + i * step + LineHeight
    IN  Max(LineHeight + 5, Min(y_pos, frame_height - 5))

\* The two putText calls per line, outline then fill (lines 178-205).
TextOps(lines, at, y_min, frame_height) ==
    [k \in 1..(2 * Len(lines)) |->
        LET i == (k - 1) \div 2
        IN  DrawOp(IF k % 2 = 1 THEN "text_outline" ELSE "text",
                   at.label_x, LineY(i, at, y_min, frame_height),
                   at.label_x, LineY(i, at, y_min, frame_height),
                   lines[i + 1])]

\* What one _draw_wrapped_text call decided; at.path is "none" when the
\* call returned at line 92 or no call was made.
NoPlace == [path |-> "none"]
Placement(text, lines, x_min, y_min, x_max, prior, at) ==
    [text |-> text, lines |-> lines, wrap_width |-> WrapWidth(x_min, x_max),
     x_min |-> x_min, y_min |-> y_min, x_max |-> x_max, prior |-> prior,
     at |-> at]
NoPlacement == Placement("", <<>>, 0, 0, 0, 0, NoPlace)

\* Faulty variant of LabelLines: a text without words yields one empty line.
LabelLinesPadded(text, x_min, x_max) ==
    LET lines == WrapWords(SplitOnSpace(text), <<>>, <<>>,
                           WrapWidth(x_min, x_max))
    IN  IF lines = <<>> THEN << <<>> >> ELSE lines

\* lines after the wrapping loop (lines 71-88).
LabelLines(text, x_min, x_max) ==
    WrapWords(SplitOnSpace(text), <<>>, <<>>, WrapWidth(x_min, x_max))

\* drawing._draw_wrapped_text as draw_bounding_boxes calls it: the decision,
\* used_areas after the call and the cv2 calls made.
_draw_wrapped_text(text, x_min, y_min, x_max, frame_width, used, frame_height) ==
    LET lines == LabelLines(text, x_min, x_max)
    IN  IF lines = <<>>
        THEN [placement |-> Placement(text, lines, x_min, y_min, x_max,
                                      Len(used), NoPlace),
              used_areas |-> used,
              ops |-> <<>>]
        ELSE LET at == PlaceLabel(lines, x_min, y_min, x_max, frame_width,
                                  used)
             IN  [placement |-> Placement(text, lines, x_min, y_min, x_max,
                                          Len(used), at),
                  used_areas |-> Append(used, at.area),
                  ops |-> <<BackgroundOp(lines, at, y_min, frame_width,
                                         frame_height)>>
                          \o TextOps(lines, at, y_min, frame_height)]

\* Faulty variant of PixelBox: the configured size is used, not frame.shape.
PixelBoxFixedSize(obj, width, height) ==
    [x_min |-> ToPixel(obj.x_min, FRAME_WIDTH),
     y_min |-> ToPixel(obj.y_min, FRAME_HEIGHT),
     x_max |-> ToPixel(obj.x_max, FRAME_WIDTH),
     y_max |-> ToPixel(obj.y_max, FRAME_HEIGHT)]

\* The pixel corners of a detection (lines 39-42).
PixelBox(obj, width, height) ==
    [x_min |-> ToPixel(obj.x_min, width), y_min |-> ToPixel(obj.y_min, height),
     x_max |-> ToPixel(obj.x_max, width), y_max |-> ToPixel(obj.y_max, height)]

\* The cv2.rectangle call that outlines a detection (lines 46-52).
OutlineOp(box) ==
    DrawOp("outline", box.x_min, box.y_min, box.x_max, box.y_max, <<>>)

\* Faulty variant of NewUsedAreas: the list outlives the call.
NewUsedAreasKept(previous) == previous

\* used_areas = [] at the top of draw_bounding_boxes (line 36); previous is
\* the list the call before it ended with.
NewUsedAreas(previous) == <<>>

\* One pass of the for loop of draw_bounding_boxes (lines 38-55).
DrawOne(obj, width, height, used) ==
    LET box == PixelBox(obj, width, height)
        r == _draw_wrapped_text(GetLabel(obj), box.x_min, box.y_min,
                                box.x_max, width, used, height)
    IN  [placement |-> r.placement,
         used_areas |-> r.used_areas,
         ops |-> <<OutlineOp(box)>> \o r.ops]

\* The cv2 calls of a whole draw_bounding_boxes call, in order.
RECURSIVE DrawFrom(_, _, _, _)
DrawFrom(objs, width, height, used) ==
    IF objs = <<>> THEN <<>>
    ELSE LET r == DrawOne(Head(objs), width, height, used)
         IN  r.ops \o DrawFrom(Tail(objs), width, height, r.used_areas)

\* Faulty variant of draw_bounding_boxes: an empty list gets a notice drawn.
draw_bounding_boxes_notice(objs, width, height) ==
    IF objs = <<>>
    THEN <<DrawOp("text", 10, 30, 10, 30, <<"no", "objects">>)>>
    ELSE DrawFrom(objs, width, height, <<>>)

\* drawing.draw_bounding_boxes: the cv2 calls made on the frame.
draw_bounding_boxes(objs, width, height) == DrawFrom(objs, width, height, <<>>)

\* Faulty variant of BannerText: the configured prompt is shown.
BannerTextDefault(shared) == DEFAULT_OBJECT_PROMPT

\* The text handed to draw_prompt_text: self.shared_state.prompt, read
\* again at line 130.
BannerText(shared) == shared

\* Faulty variant of DisplayCalls: the frame is shown and not written.
DisplayCallsNoWrite(writer) == <<"imshow">>

\* cv2.imshow, then video_writer.write when there is a writer (run, lines
\* 154-157; _process_frame never returns None).
DisplayCalls(writer) ==
    <<"imshow">> \o (IF writer = "open" THEN <<"write">> ELSE <<>>)

\* Faulty variant of CleanupCalls: the capture is left open.
CleanupCallsNoCapture(writer) ==
    (IF writer = "open" THEN <<"video_writer.release">> ELSE <<>>)
    \o <<"destroyAllWindows">>

\* VideoProcessor._cleanup (lines 165-172).
CleanupCalls(writer) ==
    (IF writer = "open" THEN <<"video_writer.release">> ELSE <<>>)
    \o <<"cap.release", "destroyAllWindows">>

(***************************************************************************)
(* Initial states                                                          *)
(***************************************************************************)

\* The threads' variables with the main thread at position at: SharedState
\* holds the initial prompt, the listener waits for input, and the fields
\* of VideoProcessor have the values __init__ gives them.
MainState(at, c, md, n) ==
    /\ cfg = c
    /\ mode = md
    /\ pc = at
    /\ frame_count = 0
    /\ fps = <<0, 1>>
    /\ start_time = 0
    /\ latest_objects = <<>>
    /\ current_prompt = NoPrompt
    /\ banner_prompt = NoPrompt
    /\ _prompt = DEFAULT_OBJECT_PROMPT
    /\ _lock = "none"
    /\ lpc = "input"
    /\ new_prompt = NoPrompt
    /\ framesLeft = n
    /\ exitReason = "none"
    /\ calls = 0
    /\ inferLog = <<>>
    /\ drawn = <<>>
    /\ banners = {}
    /\ callOps = {}
    /\ modelOut = [kind |-> "none", objects |-> <<>>]
    /\ lastOkCount = 0
    /\ detectPrompt = NoPrompt
    /\ capLog = <<>>
    /\ inferReads = 0
    /\ stored = {}
    /\ ioLog = <<>>

\* No draw_bounding_boxes and no _overlap call is being followed.
RenderIdle ==
    /\ canvas = [w |-> FRAME_WIDTH, h |-> FRAME_HEIGHT]
    /\ objects = <<>>
    /\ di = 0
    /\ used_areas = <<>>
    /\ ops = <<>>
    /\ placement = NoPlacement
    /\ rect1 = <<>>
    /\ rect2 = <<>>
    /\ overlap_result = "unset"

\* main() has built SharedState and VideoProcessor from a source that
\* opened, without --output, and started the listener; run() is about to
\* read its first frame.
InitWith(c, md, n) ==
    /\ MainState("read", c, md, n)
    /\ output_path = FALSE
    /\ video_writer = "none"
    /\ cap_opened = "yes"
    /\ RenderIdle

\* The shipped settings.
Init ==
    \E md \in Modes :
        InitWith([skip |-> FRAME_SKIP, poll |-> FPS_POLL_RATE], md, MaxFrames)

\* Any positive frame-skip interval and FPS poll rate, in detect mode, on a
\* shorter source.
InitCfg ==
    \E s \in 1..MaxSkip, p \in 1..MaxPoll :
        InitWith([skip |-> s, poll |-> p], "detect", MaxFramesCfg)

progVars == <<cfg, mode, output_path, video_writer, cap_opened>>
renderVars == <<canvas, objects, di, used_areas, ops, placement, rect1, rect2,
                overlap_result>>
fpsVars == <<frame_count, fps, start_time>>
listenerVars == <<lpc, new_prompt, stored>>
inferHist == <<modelOut, lastOkCount, detectPrompt, capLog>>

(***************************************************************************)
(* Main thread: VideoProcessor.run and _process_frame                      *)
(***************************************************************************)

\* ret, frame = self.cap.read(); if not ret: break
RunRead ==
    /\ pc = "read"
    /\ \E ret \in BOOLEAN :
         /\ ret => (framesLeft > 0 /\ cap_opened = "yes")
         /\ IF ret
            THEN /\ pc' = "process"
                 /\ framesLeft' = framesLeft - 1
                 /\ exitReason' = exitReason
                 /\ ioLog' = Append(ioLog, "read")
            ELSE /\ pc' = "cleanup"
                 /\ framesLeft' = framesLeft
                 /\ exitReason' = "eos"
                 /\ ioLog' = ioLog
    /\ UNCHANGED <<progVars, renderVars,
                   fpsVars, latest_objects, current_prompt,
                   banner_prompt, _prompt, _lock, listenerVars, calls,
                   inferLog, drawn, banners, callOps, inferHist,
                   inferReads>>

\* _process_frame entered, gate true: go on to read the prompt (line 90).
ProcessGate ==
    /\ pc = "process"
    /\ InferenceGate(frame_count, cfg.skip)
    /\ pc' = "prompt_acquire"
    /\ calls' = calls + 1
    /\ banners' = {}
    /\ callOps' = {}
    /\ inferReads' = 0
    /\ UNCHANGED <<progVars, renderVars, ioLog,
                   fpsVars, latest_objects, current_prompt,
                   banner_prompt, _prompt, _lock, listenerVars, framesLeft,
                   exitReason, inferLog, drawn, inferHist>>

\* _process_frame entered, gate false: lines 122-127 with the stored list.
ProcessSkip ==
    /\ pc = "process"
    /\ ~InferenceGate(frame_count, cfg.skip)
    /\ \E now \in ClockReadings(frame_count, start_time, cfg.poll) :
         LET t == CalculateFps(frame_count, fps, start_time, now, cfg.poll)
             kept == NextLatest(FALSE, latest_objects, <<>>)
         IN  /\ latest_objects' = kept
             /\ drawn' = kept
             /\ frame_count' = t.frame_count
             /\ fps' = t.fps
             /\ start_time' = t.start_time
    /\ pc' = "banner_acquire"
    /\ calls' = calls + 1
    /\ inferLog' = Append(inferLog, FALSE)
    /\ banners' = {"info"}
    /\ callOps' = {}
    /\ inferReads' = 0
    /\ UNCHANGED <<progVars, renderVars, ioLog,
                   current_prompt, banner_prompt, _prompt, _lock,
                   listenerVars, framesLeft, exitReason, inferHist>>

\* SharedState.prompt getter called from line 90: with self._lock
PromptAcquire ==
    /\ pc = "prompt_acquire"
    /\ LockFree(_lock)
    /\ _lock' = "main"
    /\ pc' = "prompt_locked"
    /\ UNCHANGED <<progVars, renderVars, ioLog,
                   fpsVars, latest_objects, current_prompt,
                   banner_prompt, _prompt, listenerVars, framesLeft,
                   exitReason, calls, inferLog, drawn, banners, callOps,
                   inferHist, inferReads>>

\* return self._prompt, leaving the with block; current_prompt is bound.
PromptLoad ==
    /\ pc = "prompt_locked"
    /\ current_prompt' = BoundPrompt(_prompt, current_prompt)
    /\ inferReads' = inferReads + 1
    /\ _lock' = "none"
    /\ pc' = "infer"
    /\ UNCHANGED <<progVars, renderVars, ioLog,
                   fpsVars, latest_objects, banner_prompt, _prompt,
                   listenerVars, framesLeft, exitReason, calls, inferLog,
                   drawn, banners, callOps, inferHist>>

\* Lines 93-127: detect, label, store, draw boxes, FPS, info banner.
ProcessInfer ==
    /\ pc = "infer"
    /\ \E out \in DetectOutcomes, now \in ClockReadings(frame_count, start_time, cfg.poll) :
         \E caps \in CaptionChoices(mode, detect_objects(out).objects) :
         LET r == detect_objects(out)
             processed == ProcessObjects(mode, current_prompt, r.objects, caps)
             t == CalculateFps(frame_count, fps, start_time, now, cfg.poll)
             kept == NextLatest(TRUE, latest_objects, processed)
         IN  /\ modelOut' = out
             /\ detectPrompt' = current_prompt
             /\ inferLog' = Append(inferLog, TRUE)
             /\ callOps' = {"detect_objects"} \cup
                    IF ~r.raised /\ CaptionCalls(mode, r.objects, caps) # <<>>
                    THEN {"caption_image"} ELSE {}
             /\ lastOkCount' = IF out.kind = "ok" THEN Len(out.objects)
                                ELSE lastOkCount
             /\ IF r.raised
                THEN \* the exception leaves _process_frame and run()
                     /\ pc' = "done"
                     /\ exitReason' = "exception"
                     /\ UNCHANGED <<fpsVars, latest_objects, drawn, banners,
                                    capLog>>
                ELSE /\ pc' = "banner_acquire"
                     /\ exitReason' = exitReason
                     /\ capLog' = CaptionCalls(mode, r.objects, caps)
                     /\ latest_objects' = kept
                     /\ drawn' = kept
                     /\ frame_count' = t.frame_count
                     /\ fps' = t.fps
                     /\ start_time' = t.start_time
                     /\ banners' = {"info"}
    /\ UNCHANGED <<progVars, renderVars, ioLog,
                   current_prompt, banner_prompt, _prompt, _lock,
                   listenerVars, framesLeft, calls, inferReads>>

\* SharedState.prompt getter called from line 130: with self._lock
BannerAcquire ==
    /\ pc = "banner_acquire"
    /\ LockFree(_lock)
    /\ _lock' = "main"
    /\ pc' = "banner_locked"
    /\ UNCHANGED <<progVars, renderVars, ioLog,
                   fpsVars, latest_objects, current_prompt,
                   banner_prompt, _prompt, listenerVars, framesLeft,
                   exitReason, calls, inferLog, drawn, banners, callOps,
                   inferHist, inferReads>>

\* return self._prompt; draw_prompt_text; return frame (lines 130-132).
BannerLoad ==
    /\ pc = "banner_locked"
    /\ banner_prompt' = BannerText(_prompt)
    /\ banners' = banners \cup {"prompt"}
    /\ callOps' = callOps
    /\ _lock' = "none"
    /\ pc' = "display"
    /\ UNCHANGED <<progVars, renderVars, ioLog,
                   fpsVars, latest_objects, current_prompt, _prompt,
                   listenerVars, framesLeft, exitReason, calls, inferLog,
                   drawn, inferHist, inferReads>>

\* cv2.imshow, video_writer.write, then cv2.waitKey: 'q' leaves the loop.
RunDisplay ==
    /\ pc = "display"
    /\ ioLog' = ioLog \o DisplayCalls(video_writer)
    /\ \E q \in BOOLEAN :
         IF q THEN pc' = "cleanup" /\ exitReason' = "q"
              ELSE pc' = "read" /\ exitReason' = exitReason
    /\ UNCHANGED <<progVars, renderVars,
                   fpsVars, latest_objects, current_prompt,
                   banner_prompt, _prompt, _lock, listenerVars, framesLeft,
                   calls, inferLog, drawn, banners, callOps, inferHist,
                   inferReads>>

\* self._cleanup(); run() returns and the process ends.
RunCleanup ==
    /\ pc = "cleanup"
    /\ pc' = "done"
    /\ ioLog' = ioLog \o CleanupCalls(video_writer)
    /\ UNCHANGED <<progVars, renderVars,
                   fpsVars, latest_objects, current_prompt,
                   banner_prompt, _prompt, _lock, listenerVars, framesLeft,
                   exitReason, calls, inferLog, drawn, banners, callOps,
                   inferHist, inferReads>>

(***************************************************************************)
(* Listener thread: prompt_input_thread (daemon; ends with the process)    *)
(***************************************************************************)
mainVars == <<progVars, renderVars, ioLog, pc, fpsVars, latest_objects, current_prompt,
              banner_prompt, framesLeft, exitReason, calls, inferLog, drawn,
              banners, callOps, inferHist, inferReads>>

\* new_prompt = input(...); "quit" or EOF ends the thread, "" is ignored.
ListenerInput ==
    /\ pc # "done"
    /\ lpc = "input"
    /\ \E s \in Inputs \cup {"<EOF>"} :
         /\ new_prompt' = IF s \in {"<EOF>", "quit", ""} THEN NoPrompt ELSE s
         /\ lpc' = IF s = "<EOF>" \/ s = "quit" THEN "done"
                   ELSE IF s = "" THEN "input" ELSE "set_acquire"
    /\ UNCHANGED <<mainVars, _prompt, _lock, stored>>

\* SharedState.prompt setter: with self._lock
SetterAcquire ==
    /\ pc # "done"
    /\ lpc = "set_acquire"
    /\ LockFree(_lock)
    /\ _lock' = "listener"
    /\ lpc' = "set_locked"
    /\ UNCHANGED <<mainVars, _prompt, new_prompt, stored>>

\* self._prompt = new_prompt, leaving the with block.
SetterStore ==
    /\ pc # "done"
    /\ lpc = "set_locked"
    /\ _prompt' = new_prompt
    /\ stored' = stored \cup {new_prompt}
    /\ _lock' = "none"
    /\ lpc' = "input"
    /\ new_prompt' = NoPrompt
    /\ UNCHANGED mainVars

Next ==
    \/ RunRead
    \/ ProcessGate
    \/ ProcessSkip
    \/ PromptAcquire
    \/ PromptLoad
    \/ ProcessInfer
    \/ BannerAcquire
    \/ BannerLoad
    \/ RunDisplay
    \/ RunCleanup
    \/ ListenerInput
    \/ SetterAcquire
    \/ SetterStore

Spec == Init /\ [][Next]_vars

SpecCfg == InitCfg /\ [][Next]_vars

\* The shipped frame-skip interval with any FPS poll rate, in detect mode, on
\* a short source: several FPS windows close within the run.
InitFps ==
    \E p \in 1..MaxPoll :
        InitWith([skip |-> FRAME_SKIP, poll |-> p], "detect", MaxFramesFps)

SpecFps == InitFps /\ [][Next]_vars

(***************************************************************************)
(* Start-up: main() constructs the VideoProcessor (main.py lines 57-66)    *)
(***************************************************************************)

\* Faulty variant of InitRaises: a source that did not open is accepted.
InitRaisesNever(opened) == FALSE

\* if not self.cap.isOpened(): raise IOError(...)
InitRaises(opened) == ~opened

\* self.video_writer after __init__ has run to its end.
WriterAfterInit(outp) == IF outp THEN "open" ELSE "none"

\* main() has started the listener and is about to call VideoProcessor(...)
\* with or without --output.
InitStart ==
    \E md \in Modes, outp \in BOOLEAN :
        /\ MainState("construct", [skip |-> FRAME_SKIP, poll |-> FPS_POLL_RATE],
                     md, MaxFramesStart)
        /\ output_path = outp
        /\ video_writer = "none"
        /\ cap_opened = "untried"
        /\ RenderIdle

\* VideoProcessor.__init__: open the source; IOError when it did not open,
\* which main() catches, prints and ends on; else the writer and the fields.
Construct ==
    /\ pc = "construct"
    /\ \E opened \in BOOLEAN :
         /\ cap_opened' = IF opened THEN "yes" ELSE "no"
         /\ IF InitRaises(opened)
            THEN /\ pc' = "done"
                 /\ exitReason' = "ioerror"
                 /\ video_writer' = video_writer
            ELSE /\ pc' = "read"
                 /\ exitReason' = exitReason
                 /\ video_writer' = WriterAfterInit(output_path)
    /\ UNCHANGED <<cfg, mode, output_path, renderVars, ioLog, fpsVars,
                   latest_objects, current_prompt, banner_prompt, _prompt,
                   _lock, listenerVars, framesLeft, calls, inferLog, drawn,
                   banners, callOps, inferHist, inferReads>>

NextStart ==
    \/ Construct
    \/ Next

SpecStart == InitStart /\ [][NextStart]_vars

\* The same runs with the scheduling the threads get.  The main thread is
\* never suspended for ever; a thread waiting in Lock.acquire gets the lock
\* at some release, the listener waiting in input() between its stores; and
\* the listener leaves its with block once it is in it.
MainStep ==
    \/ Construct
    \/ RunRead
    \/ ProcessGate
    \/ ProcessSkip
    \/ PromptLoad
    \/ ProcessInfer
    \/ BannerLoad
    \/ RunDisplay
    \/ RunCleanup

SpecRun ==
    /\ SpecStart
    /\ WF_vars(MainStep)
    /\ SF_vars(PromptAcquire)
    /\ SF_vars(BannerAcquire)
    /\ WF_vars(SetterStore)

(***************************************************************************)
(* draw_bounding_boxes followed pass by pass                               *)
(***************************************************************************)

\* frame.shape of the frames drawn on: the camera's size and a smaller file.
Canvases == {[w |-> FRAME_WIDTH, h |-> FRAME_HEIGHT], [w |-> 640, h |-> 480]}

\* Detections as _process_frame stores them: corners in tenths and a label.
Detection(x1, y1, x2, y2, label) ==
    [x_min |-> x1, y_min |-> y1, x_max |-> x2, y_max |-> y2, label |-> label]

\* The detections drawn: a box inside the frame, the whole frame (anchor at
\* the origin, touching the right and bottom edges), a box in the bottom
\* right corner and a narrow box sharing the first one's anchor, each with a
\* one-line and a long label; a label with a word wider than the wrap
\* width; and labels without words.
DrawPool ==
    {Detection(b[1], b[2], b[3], b[4], l) :
        b \in {<<2, 3, 6, 7>>, <<0, 0, 10, 10>>, <<8, 9, 10, 10>>,
               <<2, 3, 4, 5>>},
        l \in {"a person", DEFAULT_OBJECT_PROMPT}}
    \cup {Detection(2, 3, 4, 5, LongLabel)}
    \cup {Detection(2, 3, 6, 7, l) : l \in {"", "  ", NoLabel}}

\* _process_frame is about to call draw_bounding_boxes(frame, objects).
InitDraw ==
    /\ MainState("draw", [skip |-> FRAME_SKIP, poll |-> FPS_POLL_RATE],
                 "detect", 0)
    /\ output_path = FALSE
    /\ video_writer = "none"
    /\ cap_opened = "yes"
    /\ canvas \in Canvases
    /\ objects \in SeqsUpTo(DrawPool, MaxDrawObjects)
    /\ di = 0
    /\ used_areas = <<>>
    /\ ops = <<>>
    /\ placement = NoPlacement
    /\ rect1 = <<>>
    /\ rect2 = <<>>
    /\ overlap_result = "unset"

\* One pass of the for loop: outline the box, place and draw the label.
DrawObject ==
    /\ pc = "draw"
    /\ di < Len(objects)
    /\ LET r == DrawOne(objects[di + 1], canvas.w, canvas.h, used_areas)
       IN  /\ placement' = r.placement
           /\ used_areas' = r.used_areas
           /\ ops' = ops \o r.ops
    /\ di' = di + 1
    /\ UNCHANGED <<pc, canvas, objects, rect1, rect2, overlap_result>>
    /\ UNCHANGED <<progVars, ioLog, fpsVars, latest_objects, current_prompt,
                   banner_prompt, _prompt, _lock, listenerVars, framesLeft,
                   exitReason, calls, inferLog, drawn, banners, callOps,
                   inferHist, inferReads>>

\* return frame
DrawReturn ==
    /\ pc = "draw"
    /\ di = Len(objects)
    /\ pc' = "drawn"
    /\ UNCHANGED <<renderVars, progVars, ioLog, fpsVars, latest_objects,
                   current_prompt, banner_prompt, _prompt, _lock,
                   listenerVars, framesLeft, exitReason, calls, inferLog,
                   drawn, banners, callOps, inferHist, inferReads>>

\* The next frame: _process_frame calls draw_bounding_boxes again, here on
\* the carried-over list and a fresh copy of the frame.
DrawNextFrame ==
    /\ pc = "drawn"
    /\ pc' = "draw"
    /\ di' = 0
    /\ used_areas' = NewUsedAreas(used_areas)
    /\ ops' = <<>>
    /\ placement' = NoPlacement
    /\ UNCHANGED <<canvas, objects, rect1, rect2, overlap_result>>
    /\ UNCHANGED <<progVars, ioLog, fpsVars, latest_objects, current_prompt,
                   banner_prompt, _prompt, _lock, listenerVars, framesLeft,
                   exitReason, calls, inferLog, drawn, banners, callOps,
                   inferHist, inferReads>>

NextDraw ==
    \/ DrawObject
    \/ DrawReturn
    \/ DrawNextFrame

SpecDraw == InitDraw /\ [][NextDraw]_vars

(***************************************************************************)
(* draw_bounding_boxes on any frame.shape and any model output             *)
(***************************************************************************)

\* A frame lower than one line of label text, and the frames above.
StripCanvas == [w |-> 320, h |-> 24]
AnyCanvases == Canvases \cup {StripCanvas}

\* Detections whose coordinates the model did not keep in [0, 1] or in
\* order; drawing.py and _process_frame take the dict as it comes.
MalformedPool ==
    {Detection(0 - 1, 3, 12, 7, "a person"),
     Detection(2, 0 - 2, 6, 13, "a person"),
     Detection(6, 7, 2, 3, "a person")}

\* Well-formed detections near the edges, with one-line and longer labels.
EdgePool ==
    {Detection(8, 9, 10, 10, "a person"),
     Detection(0, 0, 10, 10, DEFAULT_OBJECT_PROMPT),
     Detection(2, 3, 4, 5, LongLabel),
     Detection(2, 3, 6, 7, "a person")}

\* As InitDraw, on any of the frames and lists above.
InitDrawAny ==
    /\ MainState("draw", [skip |-> FRAME_SKIP, poll |-> FPS_POLL_RATE],
                 "detect", 0)
    /\ output_path = FALSE
    /\ video_writer = "none"
    /\ cap_opened = "yes"
    /\ canvas \in AnyCanvases
    /\ objects \in SeqsUpTo(EdgePool \cup MalformedPool, MaxAnyObjects)
    /\ di = 0
    /\ used_areas = <<>>
    /\ ops = <<>>
    /\ placement = NoPlacement
    /\ rect1 = <<>>
    /\ rect2 = <<>>
    /\ overlap_result = "unset"

SpecDrawAny == InitDrawAny /\ [][NextDraw]_vars

(***************************************************************************)
(* _overlap called on two rectangles                                       *)
(***************************************************************************)

\* Axis-aligned rectangles with corners on a small grid.
Rects ==
    {[x_min |-> a, y_min |-> b, x_max |-> c, y_max |-> d] :
        a \in 0..MaxCoord, b \in 0..MaxCoord, c \in 0..MaxCoord,
        d \in 0..MaxCoord}
    \ {r \in [x_min : 0..MaxCoord, y_min : 0..MaxCoord,
               x_max : 0..MaxCoord, y_max : 0..MaxCoord] :
           r.x_min > r.x_max \/ r.y_min > r.y_max}

InitOverlap ==
    /\ MainState("overlap", [skip |-> FRAME_SKIP, poll |-> FPS_POLL_RATE],
                 "detect", 0)
    /\ output_path = FALSE
    /\ video_writer = "none"
    /\ cap_opened = "yes"
    /\ canvas = [w |-> FRAME_WIDTH, h |-> FRAME_HEIGHT]
    /\ objects = <<>>
    /\ di = 0
    /\ used_areas = <<>>
    /\ ops = <<>>
    /\ placement = NoPlacement
    /\ rect1 \in Rects
    /\ rect2 \in Rects
    /\ overlap_result = "unset"

\* _overlap(rect1, rect2), and the call with the arguments swapped.
OverlapCall ==
    /\ pc = "overlap"
    /\ overlap_result' = [ab |-> _overlap(rect1, rect2),
                          ba |-> _overlap(rect2, rect1)]
    /\ pc' = "overlapped"
    /\ UNCHANGED <<canvas, objects, di, used_areas, ops, placement, rect1,
                   rect2>>
    /\ UNCHANGED <<progVars, ioLog, fpsVars, latest_objects, current_prompt,
                   banner_prompt, _prompt, _lock, listenerVars, framesLeft,
                   exitReason, calls, inferLog, drawn, banners, callOps,
                   inferHist, inferReads>>

NextOverlap == OverlapCall

SpecOverlap == InitOverlap /\ [][NextOverlap]_vars

(***************************************************************************)
(* Properties                                                              *)
(***************************************************************************)
LockedByMain == pc \in {"prompt_locked", "banner_locked"}
LastCall == Len(inferLog)

\* C1: with the shipped settings (frame-skip 5, poll rate 10) the call with
\* 0-based index k invokes detect_objects exactly when k is a multiple of 5.
C1_DefaultSchedule ==
    \A k \in 1..Len(inferLog) : inferLog[k] <=> ((k - 1) % 5 = 0)

\* The call with index 10, the first after the FPS counter's reset, has run
\* inference.
C1_Witness == Len(inferLog) >= 11 /\ inferLog[11]

\* C2: for every positive frame-skip interval S and poll rate P the call
\* with 0-based index k invokes detect_objects exactly when k mod S = 0.
C2_AnyConfigSchedule ==
    \A k \in 1..Len(inferLog) : inferLog[k] <=> ((k - 1) % cfg.skip = 0)

\* C3: a _process_frame call that does not trigger inference invokes neither
\* detect_objects nor caption_image, leaves latest_objects unchanged and
\* hands draw_bounding_boxes the very list the previous call handed it.
C3_SkippedFrameCarriesList ==
    [][(/\ Len(inferLog') = Len(inferLog) + 1
        /\ ~inferLog'[Len(inferLog')])
       => (/\ callOps' = {}
           /\ latest_objects' = latest_objects
           /\ drawn' = latest_objects'
           /\ drawn' = drawn
           /\ LastCall >= 1)]_vars

\* A skipped call has just redrawn a non-empty list.
C3_Witness ==
    /\ pc = "banner_acquire"
    /\ LastCall >= 2 /\ ~inferLog[LastCall]
    /\ callOps = {}
    /\ Len(drawn) = 2

\* C4 as stated: the rendered list is the complete result of the most recent
\* successful inference, or empty when none has completed.  The list starts
\* empty, so this says: a step in which an inference succeeds makes the list
\* that inference's complete result, and no other step changes the list.
C4_LastSuccessfulResult ==
    [][IF /\ Len(inferLog') = Len(inferLog) + 1
          /\ inferLog'[Len(inferLog')]
          /\ modelOut'.kind = "ok"
       THEN BoxesOf(drawn') = modelOut'.objects
       ELSE drawn' = drawn]_vars

\* C4 as amended: the rendered list is the complete labelled result of the
\* most recent inference cycle, a failed cycle counting as an empty result,
\* or empty when no inference has run; it never mixes two cycles.
C4_LatestCycleResult ==
    /\ drawn = latest_objects
    /\ BoxesOf(drawn) = IF modelOut.kind = "ok" THEN modelOut.objects ELSE <<>>

\* A failed cycle has replaced the two detections of an earlier success.
C4_Witness ==
    /\ pc = "banner_acquire"
    /\ modelOut.kind = "raise"
    /\ lastOkCount = 2
    /\ drawn = <<>>

\* C5: a failing model.detect makes detect_objects return [], the cycle
\* counts as zero detections, the frame is still rendered and returned with
\* both banners, and run() leaves its loop only on end-of-stream or 'q'.
C5_DetectFailureSurvived ==
    /\ exitReason \in {"none", "eos", "q"}
    /\ pc \in {"cleanup", "done"} => exitReason \in {"eos", "q"}
    /\ modelOut.kind = "raise" => latest_objects = <<>> /\ drawn = <<>>
    /\ pc \in {"banner_acquire", "banner_locked"} => banners = {"info"}
    /\ pc = "display" => banners = {"info", "prompt"}

\* The call whose detect failed has returned and the loop reads on.
C5_Witness ==
    /\ pc = "read"
    /\ LastCall >= 1 /\ inferLog[LastCall]
    /\ modelOut.kind = "raise"
    /\ banners = {"info", "prompt"}
    /\ framesLeft > 0

\* C6: in caption mode a detection whose crop has zero width or zero height
\* gets no caption_image call and an empty label.
C6_DegenerateLabelEmpty ==
    mode = "caption" =>
        \A i \in 1..Len(latest_objects) :
            ~Captionable(latest_objects[i]) =>
                /\ \A j \in 1..Len(capLog) : capLog[j].idx # i
                /\ latest_objects[i].label = ""

\* C7: in caption mode every detection with a crop of positive width and
\* height gets exactly one caption_image call, whose return value ("" when
\* captioning failed) is its label, whatever the other detections got.
C7_CaptionPerDetection ==
    mode = "caption" =>
        \A i \in 1..Len(latest_objects) :
            Captionable(latest_objects[i]) =>
                /\ Cardinality({j \in 1..Len(capLog) : capLog[j].idx = i}) = 1
                /\ \A j \in 1..Len(capLog) :
                      capLog[j].idx = i =>
                          latest_objects[i].label =
                              IF capLog[j].out.kind = "ok"
                              THEN capLog[j].out.caption ELSE ""

\* Two captioned detections of one cycle, one caption failed and one not.
C7_Witness ==
    /\ mode = "caption"
    /\ Len(latest_objects) = 2
    /\ Captionable(latest_objects[1]) /\ Captionable(latest_objects[2])
    /\ latest_objects[1].label = ""
    /\ latest_objects[2].label = "a red car"

\* C8: in detect mode all stored detections carry one label, the prompt that
\* the producing inference read and passed to detect_objects.
C8_DetectLabelsArePrompt ==
    mode = "detect" =>
        \A i \in 1..Len(latest_objects) :
            latest_objects[i].label = detectPrompt

\* Two detections labelled with the prompt read before the listener's write.
C8_Witness ==
    /\ mode = "detect"
    /\ Len(latest_objects) = 2
    /\ detectPrompt = DEFAULT_OBJECT_PROMPT
    /\ _prompt = "a dog"

\* C9: getter and setter of SharedState.prompt exclude each other, and a
\* read returns the initial prompt or a value a write has stored.
C9_PromptAccessExclusive ==
    /\ ~(LockedByMain /\ lpc = "set_locked")
    /\ LockedByMain => _lock = "main"
    /\ lpc = "set_locked" => _lock = "listener"
    /\ current_prompt \in {NoPrompt, DEFAULT_OBJECT_PROMPT} \cup stored
    /\ banner_prompt \in {NoPrompt, DEFAULT_OBJECT_PROMPT} \cup stored

\* The reader is inside the getter while the writer waits for the lock, and
\* an earlier read has returned a stored value.
C9_Witness ==
    /\ pc = "prompt_locked"
    /\ lpc = "set_acquire"
    /\ banner_prompt \in stored

\* Every window of cfg.skip consecutive calls holds an inference.
InferenceEveryInterval ==
    \A k \in 1..Len(inferLog) :
        k + cfg.skip - 1 <= Len(inferLog) =>
            \E j \in k..(k + cfg.skip - 1) : inferLog[j]

\* C10: an inference reads the shared prompt once, the read returns the
\* value stored last, detect_objects gets that value and no copy kept from
\* an earlier frame, and an inference comes at least every frame-skip
\* interval; so a new prompt is used from the next inference on, at most one
\* interval of frames after its write.
C10_FreshPrompt ==
    [][/\ (pc = "prompt_locked" /\ pc' = "infer") => current_prompt' = _prompt
       /\ (pc = "infer" /\ pc' # "infer") =>
              inferReads = 1 /\ detectPrompt' = current_prompt
       /\ InferenceEveryInterval']_vars

\* The second inference has used the prompt the listener wrote after the
\* first.
C10_Witness ==
    /\ LastCall = 6 /\ inferLog[6]
    /\ detectPrompt = "a dog"
    /\ latest_objects # <<>>

\* C11: when the capture source does not open, __init__ raises IOError and
\* main() ends on it: no frame is read, no video writer is created, run() is
\* never entered and no _process_frame call is made.
C11_OpenFailureAborts ==
    cap_opened = "no" =>
        /\ pc = "done"
        /\ exitReason = "ioerror"
        /\ video_writer = "none"
        /\ framesLeft = MaxFramesStart
        /\ calls = 0 /\ inferLog = <<>>

\* The source did not open although an output file was asked for.
C11_Witness ==
    /\ cap_opened = "no"
    /\ output_path
    /\ exitReason = "ioerror"

\* The footprint the latest _draw_wrapped_text call appended, if it did.
Placed == pc \in {"draw", "drawn"} /\ di >= 1 /\ placement.at.path # "none"
Footprint == used_areas[placement.prior + 1]

\* C12: every footprint appended to used_areas for a label with words and an
\* anchor box inside the canvas lies inside the canvas.
C12_FootprintWithinCanvas ==
    \A i \in 1..Len(used_areas) :
        /\ 0 <= used_areas[i].x_min /\ used_areas[i].x_max <= canvas.w
        /\ 0 <= used_areas[i].y_min /\ used_areas[i].y_max <= canvas.h

\* C13: a label placed without the move to the right of its box (at the
\* first candidate or at the retry below the box) has a footprint that
\* overlaps none of the footprints recorded before it in the same call.
C13_AcceptedWithoutShiftIsFree ==
    (Placed /\ placement.at.path \in {"first", "below"}) =>
        /\ Footprint = placement.at.area
        /\ Len(used_areas) = placement.prior + 1
        /\ \A i \in 1..placement.prior : ~_overlap(Footprint, used_areas[i])

\* The third label of a call is placed at its first candidate.
C13_Witness ==
    /\ Placed
    /\ placement.prior = 2
    /\ placement.at.path = "first"

\* C14: _overlap(a, b) is true exactly when neither rectangle lies wholly to
\* one side of the other; touching at an edge or a corner overlaps, a gap on
\* either axis does not, containment does, and swapping the arguments gives
\* the same result.
C14_OverlapRelation ==
    pc = "overlapped" =>
        LET a == rect1
            b == rect2
            got == overlap_result.ab
            xMeet == a.x_min <= b.x_max /\ b.x_min <= a.x_max
            yMeet == a.y_min <= b.y_max /\ b.y_min <= a.y_max
        IN  /\ got <=> ~(a.x_max < b.x_min \/ b.x_max < a.x_min \/
                         a.y_max < b.y_min \/ b.y_max < a.y_min)
            /\ got = overlap_result.ba
            /\ (a.x_max = b.x_min /\ yMeet) => got
            /\ (a.y_max = b.y_min /\ xMeet) => got
            /\ (b.x_min - a.x_max > 0 \/ b.y_min - a.y_max > 0) => ~got
            /\ (a.x_min <= b.x_min /\ b.x_max <= a.x_max /\
                a.y_min <= b.y_min /\ b.y_max <= a.y_max) => got

\* Two rectangles of positive size that share one corner point overlap.
C14_Witness ==
    /\ pc = "overlapped"
    /\ rect1.x_min < rect1.x_max /\ rect1.y_min < rect1.y_max
    /\ rect2.x_min < rect2.x_max /\ rect2.y_min < rect2.y_max
    /\ rect1.x_max = rect2.x_min /\ rect1.y_max = rect2.y_min
    /\ overlap_result.ab /\ overlap_result.ba

\* The words of a text, and the words of a list of lines, in order.
WordsOf(text) == SelectSeq(SplitOnSpace(text), LAMBDA w : w # "")
RECURSIVE Flatten(_)
Flatten(lines) ==
    IF lines = <<>> THEN <<>> ELSE Head(lines) \o Flatten(Tail(lines))

\* C15: with wrap width max(300, box width) the lines of a label hold its
\* words whole, each once and in order; a line of two or more words is at
\* most the wrap width wide; a word wider than the wrap width is alone on
\* its line.
C15_WrapKeepsWords ==
    (pc \in {"draw", "drawn"} /\ di >= 1) =>
        LET lines == placement.lines
            box_width == placement.x_max - placement.x_min
            wrap == IF box_width > 300 THEN box_width ELSE 300
        IN  /\ placement.wrap_width = wrap
            /\ Flatten(lines) = WordsOf(placement.text)
            /\ \A i \in 1..Len(lines) :
                  /\ Len(lines[i]) >= 1
                  /\ Len(lines[i]) >= 2 => TextWidth(lines[i]) <= wrap
                  /\ \A j \in 1..Len(lines[i]) :
                        TextWidth(<<lines[i][j]>>) > wrap => Len(lines[i]) = 1

\* A label with a word wider than the wrap width is wrapped into three
\* lines, the wide word alone on the second.
C15_Witness ==
    /\ Placed
    /\ placement.text = LongLabel
    /\ placement.lines = << <<"a">>, <<LongWord>>, <<"scan">> >>
    /\ TextWidth(<<LongWord>>) > placement.wrap_width

\* C16: for a detection whose label is empty, missing or only spaces the
\* loop pass draws the box outline and nothing else, and adds no footprint.
C16_EmptyLabelNoOp ==
    [][(pc = "draw" /\ di' = di + 1 /\
        WordsOf(GetLabel(objects[di + 1])) = <<>>)
       => (/\ used_areas' = used_areas
           /\ ops' = Append(ops, OutlineOp(PixelBox(objects[di + 1],
                                                    canvas.w, canvas.h)))
           /\ placement'.at.path = "none")]_vars

\* After a labelled detection, one without the label key got its outline
\* only.
C16_Witness ==
    /\ pc = "draw" /\ di = 2
    /\ objects[1].label = "a person"
    /\ objects[2].label = NoLabel
    /\ Len(used_areas) = 1
    /\ ops[Len(ops)].op = "outline"
    /\ placement.at.path = "none"

\* The pass-by-pass run makes the cv2 calls of draw_bounding_boxes.
DrawnOpsAreCall ==
    pc = "drawn" => ops = draw_bounding_boxes(objects, canvas.w, canvas.h)

\* C17: with an empty detection list draw_bounding_boxes makes no drawing
\* call, and a frame processed with zero detections gets the info banner
\* and the prompt banner and nothing else.
C17_EmptyListDrawsNothing ==
    (pc = "display" /\ drawn = <<>>) =>
        /\ draw_bounding_boxes(drawn, canvas.w, canvas.h) = <<>>
        /\ banners = {"info", "prompt"}

\* An inference that found nothing has been rendered.
C17_Witness ==
    /\ pc = "display"
    /\ LastCall >= 1 /\ inferLog[LastCall]
    /\ modelOut.kind = "ok"
    /\ drawn = <<>>
    /\ banners = {"info", "prompt"}

\* The outline drawn for the k-th detection handled.
OutlineOf(k) == SelectSeq(ops, LAMBDA o : o.op = "outline")[k]
PersonAt2367 == Detection(2, 3, 6, 7, "a person")

\* C18 as stated: one detection at (0.2, 0.3, 0.6, 0.7) labelled "a person"
\* on a 1280x720 frame is outlined at (256,216)-(768,504), and its footprint
\* reaches above the box and is at least the text width plus 30 wide.
C18_PixelBoxAsStated ==
    (pc = "drawn" /\ objects = <<PersonAt2367>> /\ canvas.w = 1280
     /\ canvas.h = 720) =>
        /\ OutlineOf(1) = DrawOp("outline", 256, 216, 768, 504, <<>>)
        /\ placement.text = "a person"
        /\ Footprint.y_min < 216
        /\ Footprint.x_max - Footprint.x_min >= TextWidth(<<"a", "person">>) + 30

\* C18 as amended: every box is outlined at the truncated products of its
\* coordinates and the frame's own width and height, the double product
\* 0.7 * 720 truncating to 503; the detection above is outlined at
\* (256,216)-(768,503) on 1280x720 and at (128,144)-(384,336) on 640x480.
C18_PixelBoxTruncated ==
    /\ pc \in {"draw", "drawn"} =>
          \A k \in 1..di :
              /\ OutlineOf(k).x1 = (objects[k].x_min * canvas.w) \div 10
              /\ OutlineOf(k).y1 = (objects[k].y_min * canvas.h) \div 10
              /\ OutlineOf(k).x2 = (objects[k].x_max * canvas.w) \div 10
              /\ OutlineOf(k).y2 =
                    IF objects[k].y_max = 7 /\ canvas.h = 720 THEN 503
                    ELSE (objects[k].y_max * canvas.h) \div 10
    /\ (pc = "drawn" /\ objects = <<PersonAt2367>>) =>
          /\ OutlineOf(1) =
                IF canvas.w = 1280
                THEN DrawOp("outline", 256, 216, 768, 503, <<>>)
                ELSE DrawOp("outline", 128, 144, 384, 336, <<>>)
          /\ placement.text = "a person"
          /\ Footprint.y_min < OutlineOf(1).y1
          /\ Footprint.x_max - Footprint.x_min
                >= TextWidth(<<"a", "person">>) + 30

\* The detection of the scenario has been drawn on a 1280x720 frame.
C18_Witness ==
    /\ pc = "drawn"
    /\ objects = <<PersonAt2367>>
    /\ canvas = [w |-> 1280, h |-> 720]
    /\ OutlineOf(1).y2 = 503
    /\ placement.at.path = "first" /\ placement.at.first_above

\* C19: every _process_frame call increments the frame counter; the call on
\* which it reaches the poll rate, t seconds after the last reset, stores
\* pollRate / t as the FPS when t > 0, divides by nothing when t = 0, and
\* resets the counter to 0 and the timer to the current time; the call goes
\* on to the banners.  Other calls leave FPS and timer alone.
C19_FpsBookkeeping ==
    [][Len(inferLog') = Len(inferLog) + 1 =>
         LET t == start_time' - start_time
         IN  /\ pc' = "banner_acquire"
             /\ fps'[2] > 0
             /\ IF frame_count + 1 >= cfg.poll
                THEN /\ frame_count + 1 = cfg.poll
                     /\ frame_count' = 0
                     /\ t >= 0
                     /\ t > 0 => fps' = <<cfg.poll, t>>
                     /\ t = 0 => fps' = fps
                ELSE /\ frame_count' = frame_count + 1
                     /\ fps' = fps
                     /\ start_time' = start_time]_vars

\* Two windows have closed, one after 0 s and one after 1 s.
C19_Witness ==
    /\ pc = "banner_acquire"
    /\ LastCall = 2 * cfg.poll
    /\ frame_count = 0
    /\ start_time = 1
    /\ fps = <<cfg.poll, 1>>

\* C20: when the first candidate was above the box and collides, the label
\* is tried below the box at the same horizontal position and accepted
\* there if that footprint collides with no footprint placed before.
C20_RetryBelowAfterAbove ==
    (/\ Placed
     /\ placement.at.first_above
     /\ placement.at.first_collides
     /\ \A i \in 1..placement.prior :
            ~_overlap(placement.at.below, used_areas[i]))
    => (/\ placement.at.path = "below"
        /\ Footprint = placement.at.below)

\* The measurements the latest placement started from, recomputed from the
\* wrapped lines.
FirstLineWidth == TextWidth(placement.lines[1])
TotalTextHeight == Len(placement.lines) * (LineHeight + TEXT_LINE_SPACING)
EarlierCollide(area) ==
    \E i \in 1..placement.prior : _overlap(area, used_areas[i])

C22_RightShiftUnchecked ==
    (Placed /\ placement.at.path = "right") =>
        LET x2 == IF canvas.w - FirstLineWidth - 15 < placement.x_max + 10
                  THEN canvas.w - FirstLineWidth - 15
                  ELSE placement.x_max + 10
            y1 == placement.at.first.y_min + 5
        IN  /\ placement.at.label_x = x2
            /\ placement.at.label_y_start = y1
            /\ Len(used_areas) = placement.prior + 1
            /\ Footprint = [x_min |-> x2 - 15, y_min |-> y1 - 5,
                            x_max |-> x2 + FirstLineWidth + 15,
                            y_max |-> y1 + TotalTextHeight + 5]

\* A label moved to the right is recorded although it overlaps an earlier
\* footprint.
C22_Witness ==
    /\ Placed
    /\ placement.at.path = "right"
    /\ EarlierCollide(Footprint)

\* The detections among the first n of the list whose label has words.
Worded(n) == {k \in 1..n : WordsOf(GetLabel(objects[k])) # <<>>}
RECURSIVE WordedInOrder(_)
WordedInOrder(n) ==
    IF n = 0 THEN <<>>
    ELSE IF n \in Worded(n) THEN Append(WordedInOrder(n - 1), n)
    ELSE WordedInOrder(n - 1)

\* C23: a draw_bounding_boxes call starts with no footprints, handles the
\* detections in list order and records exactly one footprint per detection
\* whose label has words before the next detection is placed: after di
\* detections used_areas holds one footprint per worded label among them,
\* in list order, a label is tested against exactly the footprints of the
\* worded labels before it in the same call, and nothing of an earlier
\* frame's call is left in the list.
C23_FootprintsPerCall ==
    pc \in {"draw", "drawn"} =>
        LET order == WordedInOrder(di)
        IN  /\ Len(used_areas) = Len(order)
            /\ \A j \in 1..Len(order) :
                  LET obj == objects[order[j]]
                      box == PixelBox(obj, canvas.w, canvas.h)
                      lines == LabelLines(GetLabel(obj), box.x_min, box.x_max)
                  IN  used_areas[j].x_max - used_areas[j].x_min
                          = TextWidth(lines[1]) + 30
            /\ di >= 1 =>
                  IF di \in Worded(di)
                  THEN /\ placement.prior = Len(order) - 1
                       /\ placement.text = GetLabel(objects[di])
                       /\ placement.at.first_collides
                              = EarlierCollide(placement.at.first)
                  ELSE /\ placement.at.path = "none"
                       /\ placement.prior = Len(order)

\* The third detection of a list whose second label has no words is tested
\* against the footprint of the first alone.
C23_Witness ==
    /\ pc = "draw"
    /\ di = 3
    /\ Worded(3) = {1, 3}
    /\ Len(used_areas) = 2
    /\ placement.prior = 1

\* The detections whose coordinates lie in [0, 1] with min <= max.
WellFormed(obj) ==
    /\ {obj.x_min, obj.y_min, obj.x_max, obj.y_max} \subseteq 0..10
    /\ obj.x_min <= obj.x_max
    /\ obj.y_min <= obj.y_max
OnCanvas(x, y) == 0 <= x /\ x <= canvas.w /\ 0 <= y /\ y <= canvas.h
TextLineOps == {k \in 1..Len(ops) : ops[k].op \in {"text_outline", "text"}}

\* C24: the filled background rectangle of every label is clamped to the
\* canvas on all four edges, whatever the anchor box, the label and the
\* size of the canvas: both of its corners lie in [0, width] x [0, height].
C24_BackgroundWithinCanvas ==
    (pc \in {"draw", "drawn"} /\ \A k \in 1..di : WellFormed(objects[k])) =>
        \A k \in 1..Len(ops) :
            ops[k].op = "background" =>
                /\ OnCanvas(ops[k].x1, ops[k].y1)
                /\ OnCanvas(ops[k].x2, ops[k].y2)

\* C25: every line of every placed label is drawn at a baseline y with
\* line height + 5 <= y <= canvas height - 5, on every canvas height.
C25_BaselineWithinBothLimits ==
    pc \in {"draw", "drawn"} =>
        \A k \in TextLineOps :
            /\ LineHeight + 5 <= ops[k].y1
            /\ ops[k].y1 <= canvas.h - 5

\* C25 as amended: the baseline y is never less than line height + 5; on a
\* canvas at least line height + 10 high it is also at most canvas height
\* - 5, and on a lower canvas it is line height + 5.
C25_BaselineLowerLimitWins ==
    pc \in {"draw", "drawn"} =>
        \A k \in TextLineOps :
            /\ LineHeight + 5 <= ops[k].y1
            /\ canvas.h >= LineHeight + 10 => ops[k].y1 <= canvas.h - 5
            /\ canvas.h < LineHeight + 10 => ops[k].y1 = LineHeight + 5

\* A label is drawn on the canvas lower than a line of text, and its
\* baseline is below the canvas.
C25_Witness ==
    /\ Placed
    /\ canvas.h < LineHeight + 10
    /\ \E k \in TextLineOps :
          /\ ops[k].y1 = LineHeight + 5
          /\ ops[k].y1 > canvas.h - 5

\* C26: for a detection with coordinates outside [0, 1] or with min > max
\* the box is clamped to the canvas: the corners of the outline drawn and
\* the anchor handed to the label placement lie in
\* [0, width] x [0, height].
C26_MalformedBoxClamped ==
    pc \in {"draw", "drawn"} =>
        /\ \A k \in 1..Len(ops) :
              ops[k].op = "outline" =>
                  /\ OnCanvas(ops[k].x1, ops[k].y1)
                  /\ OnCanvas(ops[k].x2, ops[k].y2)
        /\ di >= 1 =>
              /\ OnCanvas(placement.x_min, placement.y_min)
              /\ placement.x_max \in 0..canvas.w

\* The filled rectangle drawn for the latest placed label: the call before
\* the two putText calls of each of its lines.
BackgroundDrawn == ops[Len(ops) - 2 * Len(placement.lines)]

\* C30: the footprint recorded in used_areas for a placed label contains
\* the background rectangle drawn for it, above and below the box and for
\* labels of several lines.
C30_FootprintContainsBackground ==
    Placed =>
        /\ BackgroundDrawn.op = "background"
        /\ Footprint.x_min <= BackgroundDrawn.x1
        /\ BackgroundDrawn.x2 <= Footprint.x_max
        /\ Footprint.y_min <= BackgroundDrawn.y1
        /\ BackgroundDrawn.y2 <= Footprint.y_max

\* The calls of the loop body among those logged, and how often a call
\* was made.
FrameEvents == SelectSeq(ioLog, LAMBDA e : e \in {"read", "imshow", "write"})
Count(ev) == Cardinality({i \in 1..Len(ioLog) : ioLog[i] = ev})
LoopLeft == pc \in {"cleanup", "done"}

Releases == {"video_writer.release", "cap.release", "destroyAllWindows"}
CleanedUp ==
    /\ exitReason \in {"eos", "q"} => LoopLeft
    /\ pc # "done" => \A i \in 1..Len(ioLog) : ioLog[i] \notin Releases
    /\ (pc = "done" /\ exitReason \in {"eos", "q"}) =>
          /\ Count("cap.release") = 1
          /\ Count("destroyAllWindows") = 1
          /\ Count("video_writer.release")
                 = (IF video_writer = "open" THEN 1 ELSE 0)
          /\ \A i \in 1..Len(ioLog) :
                ioLog[i] \in Releases =>
                    \A j \in i..Len(ioLog) : ioLog[j] \in Releases

\* C28: run() leaves its loop as soon as the source signals end-of-stream
\* or 'q' is read, and on a finite source it terminates; _cleanup then runs
\* exactly once, releasing the capture and, when there is one, the writer,
\* and nothing is read, shown or written after it.
C28_CleanupOnceAndTerminates ==
    /\ []CleanedUp
    /\ [][pc = "done" => ioLog' = ioLog]_vars
    /\ <>(pc = "done")

\* A run with a writer ended by 'q' has released the writer and the capture.
C28_Witness ==
    /\ pc = "done"
    /\ exitReason = "q"
    /\ video_writer = "open"
    /\ calls >= 1
    /\ SubSeq(ioLog, Len(ioLog) - 2, Len(ioLog))
           = <<"video_writer.release", "cap.release", "destroyAllWindows">>

\* C29: in detect mode, on every rendered frame and under any interleaving
\* with the listener, the prompt shown in the banner equals the label drawn
\* on every detection of that frame.
C29_BannerEqualsLabels ==
    (mode = "detect" /\ pc = "display") =>
        \A i \in 1..Len(drawn) : drawn[i].label = banner_prompt

\* C29 as amended: on every rendered frame all labels are the prompt read
\* by the inference that produced the list, and the banner is the prompt
\* read when the banner is drawn: the same prompt, or one the listener has
\* stored since.
C29_BannerIsLabelOrNewer ==
    (mode = "detect" /\ pc = "display") =>
        /\ \A i \in 1..Len(drawn) : drawn[i].label = detectPrompt
        /\ banner_prompt # detectPrompt =>
              /\ banner_prompt \in stored
              /\ detectPrompt \notin stored
        /\ stored = {} => banner_prompt = DEFAULT_OBJECT_PROMPT

\* A frame is shown with detections labelled with the initial prompt under
\* a banner with the prompt the listener stored after the inference.
C29_Witness ==
    /\ mode = "detect"
    /\ pc = "display"
    /\ Len(drawn) >= 1
    /\ drawn[1].label = DEFAULT_OBJECT_PROMPT
    /\ banner_prompt \in stored
    /\ banner_prompt # DEFAULT_OBJECT_PROMPT

====
